---- MODULE Spec2Model ----
(***************************************************************************)
(* Push-pull membership shuffling (src/src/push_pull.rs).                  *)
(*                                                                         *)
(* A Node owns an id and a set of connections (its view).  Three protocol  *)
(* operations rewire the views: start_push_pull, handle_push_pull_request  *)
(* and handle_push_pull_response; add_conn seeds a view.  The random       *)
(* draws (gen_bool, choose) are nondeterministic choices over every        *)
(* outcome the draw can produce.  Option<T> is modelled as a set with at   *)
(* most one element: {} is None, {v} is Some(v).                           *)
(***************************************************************************)
EXTENDS Integers, FiniteSets

\* ---------------------------------------------------------------- bounds

\* Peer ids known to the deployment: 1..MaxId.  Ids that are not in Nodes
\* name peers that are not instantiated, like node 3 of tests::case_0.
MaxId == 3

\* Messages (requests plus responses) the transport holds at once.
MaxInFlight == 1

\* ------------------------------------------------------- program constants

\* const DEGREE: usize = 4
DEGREE == 4

\* The two ends of an exchange, v1 and v2 of tests::run_proto; node k has
\* id k.  Every operation acts on one node, and a round on two.
Nodes == {1, 2}

Ids == 1..MaxId

\* Enough distinct peers for a view to outgrow the target degree.
WideIds == 1..(DEGREE + 1)

VARIABLES
    id,          \* id[n]: Node.id
    conns,       \* conns[n]: Node.conns, the view
    force_send,  \* force_send[n]: Node.force_send (test builds)
    requests,    \* PushPullRequest values in flight
    responses,   \* PushPullResponse values in flight
    panicked,    \* a fatal error (panic) was raised
    last,        \* history: the last call, its arguments and its result
    round        \* history: the atomic round in progress, if any

hist == <<last, round>>

vars == <<id, conns, force_send, requests, responses, panicked, last, round>>

\* ------------------------------------------------------------ pure helpers

\* struct PushPullRequest { from, to }
PushPullRequest(from, to) == [from |-> from, to |-> to]

\* struct PushPullResponse { from, to, selected: Option<NodeId> }
PushPullResponse(from, to, selected) ==
    [from |-> from, to |-> to, selected |-> selected]

\* Mutant of gen_bool: a draw with p = 0 can come out true.
gen_bool_loose(num, den) ==
    IF num > den THEN {"panic"}
    ELSE IF num = den THEN {"pass"}
    ELSE {"pass", "decline"}

\* Rng::gen_bool(p) with p = num / den: a fatal error when p is outside
\* [0, 1], never true for p = 0, always true for p = 1, either otherwise.
gen_bool(num, den) ==
    IF num > den THEN {"panic"}
    ELSE IF num = 0 THEN {"decline"}
    ELSE IF num = den THEN {"pass"}
    ELSE {"pass", "decline"}

\* Numerator of p = conns.len() / DEGREE.
p_num(view) == Cardinality(view)

\* Node::should_send: the outcomes of the participation gate.
should_send(n) ==
    IF force_send[n] THEN {"pass"} ELSE gen_bool(p_num(conns[n]), DEGREE)

\* Node::should_respond
should_respond(n) == should_send(n)

\* Mutant of choose: always the first peer in iteration order.
choose_first(view) ==
    IF view = {} THEN {{}}
    ELSE {{CHOOSE v \in view : \A w \in view : v <= w}}

\* iter().choose(rng).copied(): None on an empty set, else any member.
choose(view) == IF view = {} THEN {{}} ELSE {{v} : v \in view}

\* Mutant of unwrap_or: the fallback is the default id 0, not self.id.
unwrap_or_default(opt, self) == IF opt = {} THEN 0 ELSE CHOOSE v \in opt : TRUE

\* .unwrap_or(self.id)
unwrap_or(opt, self) == IF opt = {} THEN self ELSE CHOOSE v \in opt : TRUE

\* HashSet::insert(other): the set afterwards.
InsertConn(view, other) == view \cup {other}

\* HashSet::insert(other): the value returned.
InsertRet(view, other) == other \notin view

\* Mutant of RequestView: the requester is inserted before v3 is removed.
RequestView_InsertFirst(view, v3, from) == (view \cup {from}) \ v3

\* Mutant of RequestView: the requester is never inserted.
RequestView_NoInsert(view, v3, from) == view \ v3

\* The view handle_push_pull_request leaves when it participates:
\* remove v3 (if any), then insert request.from.
RequestView(view, v3, from) == (view \ v3) \cup {from}

\* Mutant of RequestSelected: the responder always names itself.
RequestSelected_Self(v3, self) == {self}

\* Mutant of RequestSelected: no fallback to the node's own id.
RequestSelected_NoFallback(v3, self) == v3

\* The selected field handle_push_pull_request returns when it participates.
RequestSelected(v3, self) == {unwrap_or(v3, self)}

\* Mutants of ResponseView: the selected peer is inserted before
\* response.from is removed; response.from is never removed; response.from
\* is removed even when nothing was selected.
ResponseView_InsertFirst(view, from, selected) ==
    IF selected # {} THEN (view \cup selected) \ {from} ELSE view

ResponseView_KeepFrom(view, from, selected) == view \cup selected

ResponseView_AlwaysRemove(view, from, selected) ==
    (view \ {from}) \cup selected

\* The view handle_push_pull_response leaves.
ResponseView(view, from, selected) ==
    IF selected # {} THEN (view \ {from}) \cup selected ELSE view

InFlight == Cardinality(requests) + Cardinality(responses)

\* ------------------------------------------------------------------- Init

NoCall ==
    [op |-> "none", node |-> {}, view |-> {}, gate |-> "none", p |-> {},
     peer |-> {}, ok |-> FALSE, req |-> {}, resp |-> {}]

IdleRound ==
    [phase |-> "idle", v1 |-> {}, view1 |-> {}, req |-> {},
     v2 |-> {}, view2 |-> {}, resp |-> {}]

\* Node::new(id) for every node; nothing in flight.
Init ==
    /\ id = [n \in Nodes |-> n]
    /\ conns = [n \in Nodes |-> {}]
    /\ force_send = [n \in Nodes |-> FALSE]
    /\ requests = {}
    /\ responses = {}
    /\ panicked = FALSE
    /\ last = NoCall
    /\ round = IdleRound

\* ---------------------------------------------------------------- actions
\* Each operation is one atomic step on the program variables; its random
\* draws are parameters (g: the gate's outcome, v2 / v3: what choose gave).

\* The transport accepts a message when it has room and drops it otherwise.
Send(inflight, msg, cap) ==
    IF msg \in inflight \/ InFlight < cap
    THEN inflight \cup {msg} ELSE inflight

\* Mutant of add_conn: a node refuses its own id (self-loop prevention).
add_conn_no_self(n, other) ==
    /\ ~panicked
    /\ conns' = [conns EXCEPT
                   ![n] = IF other = id[n] THEN @ ELSE InsertConn(@, other)]
    /\ UNCHANGED <<id, force_send, requests, responses, panicked>>

\* Node::add_conn(other)
add_conn(n, other) ==
    /\ ~panicked
    /\ conns' = [conns EXCEPT ![n] = InsertConn(@, other)]
    /\ UNCHANGED <<id, force_send, requests, responses, panicked>>

\* tests::run_proto: v1.force_send = true; v2.force_send = true
set_force_send ==
    /\ ~panicked
    /\ force_send' = [n \in Nodes |-> TRUE]
    /\ UNCHANGED <<id, conns, requests, responses, panicked>>

\* What start_push_pull returns: Option<PushPullRequest>.
StartRet(n, g, v2) ==
    IF g = "pass" THEN {PushPullRequest(id[n], unwrap_or(v2, id[n]))} ELSE {}

\* Mutant of start_push_pull: the target is dropped from the view as soon
\* as the request is sent.
start_push_pull_eager(n, g, v2, cap) ==
    /\ ~panicked
    /\ g \in should_send(n)
    /\ v2 \in (IF g = "pass" THEN choose(conns[n]) ELSE {{}})
    /\ panicked' = (g = "panic")
    /\ requests' = IF g = "pass"
                   THEN Send(requests,
                             CHOOSE r \in StartRet(n, g, v2) : TRUE, cap)
                   ELSE requests
    /\ conns' = [conns EXCEPT ![n] = @ \ v2]
    /\ UNCHANGED <<id, force_send, responses>>

\* Node::start_push_pull
start_push_pull(n, g, v2, cap) ==
    /\ ~panicked
    /\ g \in should_send(n)
    /\ v2 \in (IF g = "pass" THEN choose(conns[n]) ELSE {{}})
    /\ panicked' = (g = "panic")
    /\ requests' = IF g = "pass"
                   THEN Send(requests,
                             CHOOSE r \in StartRet(n, g, v2) : TRUE, cap)
                   ELSE requests
    /\ UNCHANGED <<id, conns, force_send, responses>>

\* Mutant of RequestRet: the response is addressed to request.to.
RequestRet_EchoTo(n, request, g, v3) ==
    PushPullResponse(id[n], request.to,
                     IF g = "pass" THEN RequestSelected(v3, id[n]) ELSE {})

\* What handle_push_pull_request returns.
RequestRet(n, request, g, v3) ==
    PushPullResponse(id[n], request.from,
                     IF g = "pass" THEN RequestSelected(v3, id[n]) ELSE {})

\* Mutant of handle_push_pull_request: the views are one shared set, so the
\* rewiring of one node shows in every node.
handle_push_pull_request_shared(n, request, g, v3) ==
    /\ ~panicked
    /\ request \in requests
    /\ g \in should_respond(n)
    /\ v3 \in (IF g = "pass" THEN choose(conns[n]) ELSE {{}})
    /\ panicked' = (g = "panic")
    /\ conns' = IF g = "pass"
                THEN [m \in Nodes |-> RequestView(conns[n], v3, request.from)]
                ELSE conns
    /\ requests' = requests \ {request}
    /\ responses' = IF g = "panic" THEN responses
                    ELSE responses \cup {RequestRet(n, request, g, v3)}
    /\ UNCHANGED <<id, force_send>>

\* Node::handle_push_pull_request
handle_push_pull_request(n, request, g, v3) ==
    /\ ~panicked
    /\ request \in requests
    /\ g \in should_respond(n)
    /\ v3 \in (IF g = "pass" THEN choose(conns[n]) ELSE {{}})
    /\ panicked' = (g = "panic")
    /\ conns' = IF g = "pass"
                THEN [conns EXCEPT ![n] = RequestView(@, v3, request.from)]
                ELSE conns
    /\ requests' = requests \ {request}
    /\ responses' = IF g = "panic" THEN responses
                    ELSE responses \cup {RequestRet(n, request, g, v3)}
    /\ UNCHANGED <<id, force_send>>

\* Mutant of handle_push_pull_response: a response is applied only by the
\* node it answers.
handle_push_pull_response_solicited(n, response) ==
    /\ ~panicked
    /\ response \in responses
    /\ conns' = IF response.to = id[n]
                THEN [conns EXCEPT
                        ![n] = ResponseView(@, response.from,
                                            response.selected)]
                ELSE conns
    /\ responses' = responses \ {response}
    /\ UNCHANGED <<id, force_send, requests, panicked>>

\* Node::handle_push_pull_response
handle_push_pull_response(n, response) ==
    /\ ~panicked
    /\ response \in responses
    /\ conns' = [conns EXCEPT
                   ![n] = ResponseView(@, response.from, response.selected)]
    /\ responses' = responses \ {response}
    /\ UNCHANGED <<id, force_send, requests, panicked>>

\* The transport loses a request or a response.
lose_request(request) ==
    /\ ~panicked
    /\ request \in requests
    /\ requests' = requests \ {request}
    /\ UNCHANGED <<id, conns, force_send, responses, panicked>>

lose_response(response) ==
    /\ ~panicked
    /\ response \in responses
    /\ responses' = responses \ {response}
    /\ UNCHANGED <<id, conns, force_send, requests, panicked>>

\* ------------------------------------------------- calls with history
\* Spec records in `last` one call of a run, any call of any run: the node,
\* its view before the call, the gate's outcome, the arguments and the value
\* returned.  The calls before it go unrecorded, and the run is followed no
\* further than the recorded call (the same program state is also reached
\* unrecorded, and continues from there).

Recording == last = NoCall

Record(call) == last' \in {NoCall, call}

Unrecorded == last' = NoCall

Gates == {"pass", "decline", "panic"}

\* What choose can give on the view of node n; {} also stands for no draw.
Draws(n) == choose(conns[n]) \cup {{}}

\* The probability handed to gen_bool by the gate of node n, if it draws.
Drawn(n) == IF force_send[n] THEN {} ELSE {p_num(conns[n])}

AddConn(n, other) ==
    /\ Recording
    /\ add_conn(n, other)
    /\ Record([NoCall EXCEPT !.op = "add_conn", !.node = {n},
                             !.view = conns[n], !.peer = {other},
                             !.ok = InsertRet(conns[n], other)])
    /\ UNCHANGED round

ForceSend ==
    /\ Recording
    /\ set_force_send
    /\ Unrecorded
    /\ UNCHANGED round

StartPushPull(n) ==
    /\ Recording
    /\ \E g \in Gates, v2 \in Draws(n) :
           /\ start_push_pull(n, g, v2, MaxInFlight)
           /\ Record([NoCall EXCEPT
                        !.op = "start_push_pull", !.node = {n},
                        !.view = conns[n], !.gate = g, !.p = Drawn(n),
                        !.req = StartRet(n, g, v2)])
           /\ UNCHANGED round

HandlePushPullRequest(n, request) ==
    /\ Recording
    /\ \E g \in Gates, v3 \in Draws(n) :
           /\ handle_push_pull_request(n, request, g, v3)
           /\ Record([NoCall EXCEPT
                        !.op = "handle_push_pull_request", !.node = {n},
                        !.view = conns[n], !.gate = g, !.p = Drawn(n),
                        !.peer = IF g = "pass" THEN v3 ELSE {},
                        !.req = {request},
                        !.resp = IF g = "panic" THEN {}
                                 ELSE {RequestRet(n, request, g, v3)}])
           /\ UNCHANGED round

HandlePushPullResponse(n, response) ==
    /\ Recording
    /\ handle_push_pull_response(n, response)
    /\ Record([NoCall EXCEPT !.op = "handle_push_pull_response",
                             !.node = {n}, !.view = conns[n],
                             !.resp = {response}])
    /\ UNCHANGED round

LoseRequest(request) ==
    /\ Recording
    /\ lose_request(request)
    /\ Unrecorded
    /\ UNCHANGED round

LoseResponse(response) ==
    /\ Recording
    /\ lose_response(response)
    /\ Unrecorded
    /\ UNCHANGED round

\* The deployment: add_conn seeds the views, the scheduler calls
\* start_push_pull, and the transport hands each message to the node its
\* `to` field names, or loses it.
Next ==
    \/ \E n \in Nodes, other \in Ids : AddConn(n, other)
    \/ ForceSend
    \/ \E n \in Nodes : StartPushPull(n)
    \/ \E n \in Nodes, request \in requests :
           request.to = id[n] /\ HandlePushPullRequest(n, request)
    \/ \E n \in Nodes, response \in responses :
           response.to = id[n] /\ HandlePushPullResponse(n, response)
    \/ \E request \in requests : LoseRequest(request)
    \/ \E response \in responses : LoseResponse(response)

Spec == Init /\ [][Next]_vars

\* ------------------------------------------------------ rounds with history
\* SpecRound records in `round` the atomic round in progress, as
\* tests::run_proto runs it: start_push_pull on v1, then
\* handle_push_pull_request of that request on v2, then
\* handle_push_pull_response of that response on v1, nothing in between.

RoundAddConn(n, other) ==
    /\ add_conn(n, other)
    /\ round' = IdleRound
    /\ UNCHANGED last

RoundForceSend ==
    /\ set_force_send
    /\ round' = IdleRound
    /\ UNCHANGED last

RoundStart(n) ==
    \E g \in Gates, v2 \in Draws(n) :
        /\ start_push_pull(n, g, v2, MaxInFlight)
        /\ round' = IF g = "pass"
                    THEN [IdleRound EXCEPT !.phase = "requested",
                                           !.v1 = {n}, !.view1 = conns[n],
                                           !.req = StartRet(n, g, v2)]
                    ELSE IdleRound
        /\ UNCHANGED last

RoundRequest(n, request) ==
    \E g \in Gates, v3 \in Draws(n) :
        /\ handle_push_pull_request(n, request, g, v3)
        /\ round' = IF round.phase = "requested" /\ round.req = {request}
                       /\ g # "panic"
                    THEN [round EXCEPT
                            !.phase = "responded", !.v2 = {n},
                            !.view2 = conns[n],
                            !.resp = {RequestRet(n, request, g, v3)}]
                    ELSE IdleRound
        /\ UNCHANGED last

RoundResponse(n, response) ==
    /\ handle_push_pull_response(n, response)
    /\ round' = IF round.phase = "responded" /\ round.v1 = {n}
                   /\ round.resp = {response}
                THEN [round EXCEPT !.phase = "done"]
                ELSE IdleRound
    /\ UNCHANGED last

RoundLoseRequest(request) ==
    /\ lose_request(request)
    /\ round' = IdleRound
    /\ UNCHANGED last

RoundLoseResponse(response) ==
    /\ lose_response(response)
    /\ round' = IdleRound
    /\ UNCHANGED last

NextRound ==
    \/ \E n \in Nodes, other \in Ids : RoundAddConn(n, other)
    \/ RoundForceSend
    \/ \E n \in Nodes : RoundStart(n)
    \/ \E n \in Nodes, request \in requests :
           request.to = id[n] /\ RoundRequest(n, request)
    \/ \E n \in Nodes, response \in responses :
           response.to = id[n] /\ RoundResponse(n, response)
    \/ \E request \in requests : RoundLoseRequest(request)
    \/ \E response \in responses : RoundLoseResponse(response)

SpecRound == Init /\ [][NextRound]_vars

\* A production build (no force_send field) whose views add_conn seeds from
\* more than DEGREE distinct peers.
NextGate ==
    \/ \E n \in Nodes, other \in WideIds : AddConn(n, other)
    \/ \E n \in Nodes : StartPushPull(n)
    \/ \E n \in Nodes, request \in requests :
           request.to = id[n] /\ HandlePushPullRequest(n, request)
    \/ \E n \in Nodes, response \in responses :
           response.to = id[n] /\ HandlePushPullResponse(n, response)
    \/ \E request \in requests : LoseRequest(request)
    \/ \E response \in responses : LoseResponse(response)

SpecGate == Init /\ [][NextGate]_vars

\* The public interface alone: a caller hands any request or response it
\* holds to any node, whatever its `to` field says.
NextAny ==
    \/ \E n \in Nodes, other \in Ids : AddConn(n, other)
    \/ ForceSend
    \/ \E n \in Nodes : StartPushPull(n)
    \/ \E n \in Nodes, request \in requests :
           HandlePushPullRequest(n, request)
    \/ \E n \in Nodes, response \in responses :
           HandlePushPullResponse(n, response)
    \/ \E request \in requests : LoseRequest(request)
    \/ \E response \in responses : LoseResponse(response)

SpecAny == Init /\ [][NextAny]_vars

\* ------------------------------------------------------------- shuffling
\* SpecShuffle: the views are seeded with at most DEGREE peers and then
\* changed by the protocol alone; the transport delays, reorders and loses
\* messages, and holds a request and a response at once.

ShuffleInFlight == MaxInFlight + 1

InitShuffle ==
    /\ id = [n \in Nodes |-> n]
    /\ conns \in [Nodes -> {v \in SUBSET WideIds : Cardinality(v) <= DEGREE}]
    /\ force_send = [n \in Nodes |-> FALSE]
    /\ requests = {}
    /\ responses = {}
    /\ panicked = FALSE
    /\ last = NoCall
    /\ round = IdleRound

ShuffleStart(n) ==
    \E g \in Gates, v2 \in Draws(n) :
        start_push_pull(n, g, v2, ShuffleInFlight) /\ UNCHANGED hist

ShuffleRequest(n, request) ==
    \E g \in Gates, v3 \in Draws(n) :
        handle_push_pull_request(n, request, g, v3) /\ UNCHANGED hist

ShuffleResponse(n, response) ==
    handle_push_pull_response(n, response) /\ UNCHANGED hist

ShuffleLoseRequest(request) == lose_request(request) /\ UNCHANGED hist

ShuffleLoseResponse(response) == lose_response(response) /\ UNCHANGED hist

NextShuffle ==
    \/ \E n \in Nodes : ShuffleStart(n)
    \/ \E n \in Nodes, request \in requests :
           request.to = id[n] /\ ShuffleRequest(n, request)
    \/ \E n \in Nodes, response \in responses :
           response.to = id[n] /\ ShuffleResponse(n, response)
    \/ \E request \in requests : ShuffleLoseRequest(request)
    \/ \E response \in responses : ShuffleLoseResponse(response)

SpecShuffle == InitShuffle /\ [][NextShuffle]_vars

\* ------------------------------------------------------------- properties

\* C1 (as claimed): whatever the size of the view, the probability the gate
\* hands to the random boolean draw is at most 1 (p_num <= DEGREE), and no
\* call raises a fatal error.
C1_GateProbabilityInRange ==
    /\ ~panicked
    /\ \A q \in last.p : 0 <= q /\ q <= DEGREE

\* C2: a full round in which both gates pass, started with v1.view = {v2}
\* and v2.view = {x}, ends with v1.view = {x} and v2.view = {v1}, for every
\* id x (x = v1 and x = v2 included).
C2_RoundRewiresBothEnds ==
    \A a \in round.v1, b \in round.v2, rsp \in round.resp, x \in Ids :
        ( /\ round.phase = "done"
          /\ a # b
          /\ rsp.selected # {}
          /\ round.view1 = {id[b]}
          /\ round.view2 = {x} )
        => conns[a] = {x} /\ conns[b] = {id[a]}

\* A completed forced round of case_2's shape (x = v2).
C2_Witness ==
    \E a \in round.v1, b \in round.v2, rsp \in round.resp :
        /\ round.phase = "done"
        /\ a # b
        /\ rsp.selected # {}
        /\ round.view1 = {id[b]}
        /\ round.view2 = {id[b]}
        /\ force_send[a] /\ force_send[b]

\* C3: handle_push_pull_request with the gate passing on a non-empty view V
\* picks some v3 in V, leaves the view (V \ {v3}) \cup {request.from} and
\* returns selected = Some(v3) for that v3.
C3_RequestSwapsSelected ==
    \A n \in last.node, rq \in last.req, rsp \in last.resp :
        ( /\ last.op = "handle_push_pull_request"
          /\ last.gate = "pass"
          /\ last.view # {} )
        => \E v3 \in last.view :
               /\ conns[n] = (last.view \ {v3}) \cup {rq.from}
               /\ rsp.selected = {v3}

\* The request was handled on a view of two peers, one of them the requester,
\* and the requester was the peer picked.
C3_Witness ==
    \E n \in last.node, rq \in last.req, rsp \in last.resp :
        /\ last.op = "handle_push_pull_request"
        /\ last.gate = "pass"
        /\ Cardinality(last.view) = 2
        /\ rsp.selected = {rq.from}

\* C4: handle_push_pull_request returns selected = None exactly when its gate
\* declined, and then the view is what it was before the call.
C4_NoneIffDeclined ==
    \A n \in last.node, rsp \in last.resp :
        last.op = "handle_push_pull_request"
        => /\ (rsp.selected = {}) <=> (last.gate = "decline")
           /\ last.gate = "decline" => conns[n] = last.view

\* The gate declined on a non-empty view.
C4_Witness ==
    \E n \in last.node, rsp \in last.resp :
        /\ last.op = "handle_push_pull_request"
        /\ last.gate = "decline"
        /\ last.view # {}
        /\ rsp.selected = {}

\* C5: handle_push_pull_response of selected = Some(v3) on a view V leaves
\* (V \ {response.from}) \cup {v3}: v3 is in the view, response.from is in it
\* only if v3 = response.from, and no fatal error is raised.
C5_ResponseRemovesThenInserts ==
    \A n \in last.node, rsp \in last.resp, v3 \in Ids :
        ( /\ last.op = "handle_push_pull_response"
          /\ rsp.selected = {v3} )
        => /\ conns[n] = (last.view \ {rsp.from}) \cup {v3}
           /\ v3 \in conns[n]
           /\ rsp.from \in conns[n] => v3 = rsp.from
           /\ ~panicked

\* A self-loop response (v3 = response.from) was handled on a view holding
\* response.from.
C5_Witness ==
    \E n \in last.node, rsp \in last.resp :
        /\ last.op = "handle_push_pull_response"
        /\ rsp.selected = {rsp.from}
        /\ rsp.from \in last.view
        /\ rsp.from \in conns[n]

\* C6: in a round whose responder declined (selected = None), the requester's
\* view after handling the response is its view at start_push_pull and holds
\* the request's target.
C6_DeclinedRoundIsNoOp ==
    \A a \in round.v1, rq \in round.req, rsp \in round.resp :
        ( /\ round.phase = "done"
          /\ rsp.selected = {} )
        => /\ conns[a] = round.view1
           /\ rq.to \in conns[a]

\* A round between two nodes completed with a declined response.
C6_Witness ==
    \E a \in round.v1, b \in round.v2, rsp \in round.resp :
        /\ round.phase = "done"
        /\ a # b
        /\ rsp.selected = {}

\* C7: start_push_pull leaves the view as it was, whatever the gate gave, and
\* returns no request when the gate declined.
C7_StartLeavesView ==
    \A n \in last.node :
        last.op = "start_push_pull"
        => /\ conns[n] = last.view
           /\ last.gate # "pass" => last.req = {}

\* start_push_pull was called on a non-empty view and its gate declined.
C7_Witness ==
    /\ last.op = "start_push_pull"
    /\ last.view # {}
    /\ last.gate = "decline"
    /\ last.req = {}

\* C8: a request start_push_pull returns on a non-empty view is from the
\* node's own id to a member of its view, and every member of the view can
\* be the target (the call left the view and the gate as they were, so a
\* call returning a request to that member is enabled).
C8_TargetInView ==
    /\ \A n \in last.node, rq \in last.req :
           (last.op = "start_push_pull" /\ last.view # {})
           => rq.from = id[n] /\ rq.to \in conns[n]
    /\ \A n \in last.node, v \in last.view :
           (last.op = "start_push_pull" /\ last.req # {})
           => ENABLED (\E v2 \in Draws(n) :
                          /\ start_push_pull(n, "pass", v2, MaxInFlight)
                          /\ StartRet(n, "pass", v2)
                                 = {PushPullRequest(id[n], v)})

\* A request was returned on a view of at least two peers, to the largest.
C8_Witness ==
    \E n \in last.node, rq \in last.req :
        /\ last.op = "start_push_pull"
        /\ Cardinality(last.view) >= 2
        /\ \A v \in last.view : v <= rq.to

\* C9: add_conn(p) returns true exactly when p was not in the view, and p is
\* in the view afterwards; when p already was, the view is unchanged (so a
\* second add_conn(p) returns false and changes nothing); the node's own id
\* is accepted like any other.
C9_AddConnInserts ==
    \A n \in last.node, other \in last.peer :
        last.op = "add_conn"
        => /\ last.ok <=> other \notin last.view
           /\ other \in conns[n]
           /\ conns[n] = last.view \cup {other}
           /\ ~last.ok => conns[n] = last.view

\* add_conn accepted the node's own id.
C9_Witness ==
    \E n \in last.node :
        /\ last.op = "add_conn"
        /\ last.peer = {id[n]}
        /\ last.ok
        /\ id[n] \in conns[n]

\* add_conn(p) was called again on a view that held p, and returned false.
C9_WitnessTwice ==
    \E n \in last.node :
        /\ last.op = "add_conn"
        /\ last.peer \subseteq last.view
        /\ ~last.ok

\* C10 (as claimed): a view seeded with at most DEGREE peers and changed by
\* the protocol alone never holds more than DEGREE peers.
C10_ViewsBounded == \A n \in Nodes : Cardinality(conns[n]) <= DEGREE

\* C11: a call of add_conn, start_push_pull, handle_push_pull_request or
\* handle_push_pull_response changes at most the view of the node it is
\* called on: the view of every other node and every node's id stay as they
\* were before the call.
C11_OnlyOwnViewChanges ==
    [][ /\ id' = id
        /\ \A m \in Nodes :
               (last'.op # "none" /\ m \notin last'.node)
               => conns'[m] = conns[m] ]_vars

\* A node handled a request and picked as v3 another node, which is not the
\* requester: that node is only named in the round.
C11_Witness ==
    \E n \in last.node, m \in Nodes, rq \in last.req :
        /\ last.op = "handle_push_pull_request"
        /\ last.gate = "pass"
        /\ m # n
        /\ last.peer = {id[m]}
        /\ rq.from # id[m]
        /\ conns[n] # last.view

\* C12: the response handle_push_pull_request returns, participating or
\* declined, is from the responder's own id to request.from.
C12_ResponseAddressed ==
    \A n \in last.node, rq \in last.req, rsp \in last.resp :
        last.op = "handle_push_pull_request"
        => rsp.from = id[n] /\ rsp.to = rq.from

\* A node declined the request of another node and answered it.
C12_Witness ==
    \E n \in last.node, rq \in last.req, rsp \in last.resp :
        /\ last.op = "handle_push_pull_request"
        /\ last.gate = "decline"
        /\ rq.from # id[n]
        /\ rsp.to = rq.from

\* C14: a participating handle_push_pull_request picks and removes v3 on the
\* view as it was before the requester is inserted: a requester that was not
\* in a non-empty view is not the selected peer; when v3 is the requester,
\* the response still carries Some(request.from); and the requester is in
\* the view afterwards in every participating call.
C14_SelectedBeforeInsert ==
    \A n \in last.node, rq \in last.req, rsp \in last.resp :
        (last.op = "handle_push_pull_request" /\ last.gate = "pass")
        => /\ rq.from \in conns[n]
           /\ (last.view # {} /\ rq.from \notin last.view)
              => rsp.selected # {rq.from}
           /\ last.peer = {rq.from} => rsp.selected = {rq.from}

\* The requester was already connected, and was the peer picked as v3.
C14_Witness ==
    \E n \in last.node, rq \in last.req, rsp \in last.resp :
        /\ last.op = "handle_push_pull_request"
        /\ last.gate = "pass"
        /\ rq.from # id[n]
        /\ rq.from \in last.view
        /\ last.peer = {rq.from}
        /\ rsp.selected = {rq.from}
        /\ rq.from \in conns[n]

\* C17: with the gate passing on an empty view, start_push_pull returns a
\* request from the node's own id to its own id, and
\* handle_push_pull_request returns selected = Some(own id) and leaves the
\* view {request.from}; neither raises a fatal error.
C17_EmptyViewFallsBackToSelf ==
    \A n \in last.node :
        (last.gate = "pass" /\ last.view = {})
        => /\ ~panicked
           /\ last.op = "start_push_pull"
              => last.req = {PushPullRequest(id[n], id[n])}
           /\ last.op = "handle_push_pull_request"
              => \A rq \in last.req, rsp \in last.resp :
                     rsp.selected = {id[n]} /\ conns[n] = {rq.from}

\* A node with an empty view handled the request it had addressed to itself
\* (the fallback of start_push_pull) and selected itself.
C17_Witness ==
    \E n \in last.node, rq \in last.req, rsp \in last.resp :
        /\ last.op = "handle_push_pull_request"
        /\ last.gate = "pass"
        /\ last.view = {}
        /\ rq = PushPullRequest(id[n], id[n])
        /\ rsp.selected = {id[n]}

\* C18: when the gate draws (participation is not forced), a node with an
\* empty view declines: start_push_pull returns no request, and
\* handle_push_pull_request returns selected = None and leaves the view
\* empty; a gate that passes on an empty view is a forced one.
C18_EmptyViewDeclines ==
    \A n \in last.node :
        (last.op \in {"start_push_pull", "handle_push_pull_request"}
            /\ last.view = {})
        => /\ last.p # {}
              => /\ last.gate = "decline"
                 /\ last.req = {} \/ last.op = "handle_push_pull_request"
                 /\ \A rsp \in last.resp : rsp.selected = {}
                 /\ conns[n] = {}
           /\ last.gate = "pass" => force_send[n]

\* A node with an empty view drew p = 0 on a request and declined it.
C18_Witness ==
    \E n \in last.node, rsp \in last.resp :
        /\ last.op = "handle_push_pull_request"
        /\ last.view = {}
        /\ last.p = {0}
        /\ last.gate = "decline"
        /\ rsp.selected = {}
        /\ conns[n] = {}

\* C15 (as claimed): a node processes only requests whose `to` is its own
\* id: handed a request addressed to another node, it selects nothing and
\* leaves its view as it was.
C15_OnlyOwnRequestsProcessed ==
    \A n \in last.node, rq \in last.req :
        (last.op = "handle_push_pull_request" /\ rq.to # id[n])
        => /\ conns[n] = last.view
           /\ \A rsp \in last.resp : rsp.selected = {}

\* C16: handle_push_pull_response keeps no state of the requests sent: the
\* view it leaves is a function of the view before the call and of the
\* response's from and selected fields alone, whichever node is called,
\* whatever the response's `to` and whether or not the node had sent a request
\* to response.from.
C16_ResponseEffectIsStateless ==
    \A n \in last.node, rsp \in last.resp :
        last.op = "handle_push_pull_response"
        => conns[n] = IF rsp.selected = {} THEN last.view
                      ELSE (last.view \ {rsp.from}) \cup rsp.selected

\* An unsolicited response (addressed to another node, from a peer that is
\* not in the view) was applied and changed the view.
C16_Witness ==
    \E n \in last.node, rsp \in last.resp :
        /\ last.op = "handle_push_pull_response"
        /\ rsp.to # id[n]
        /\ rsp.from \notin last.view
        /\ rsp.selected # {}
        /\ conns[n] # last.view

\* C19: in an atomic round whose target is in the requester's view and whose
\* responder has a non-empty view, neither view is larger after the round
\* than before it; a step that handles a request on a non-empty view does
\* not enlarge the view; a step that handles a response enlarges it by at
\* most one peer, and only when response.from was not in it.
C19_RoundNeverGrowsViews ==
    /\ [](\A a \in round.v1, b \in round.v2, rq \in round.req :
              ( /\ round.phase = "done"
                /\ rq.to \in round.view1
                /\ round.view2 # {} )
              => /\ Cardinality(conns[a]) <= Cardinality(round.view1)
                 /\ Cardinality(conns[b]) <= Cardinality(round.view2))
    /\ [][\A n \in Nodes :
              /\ \A rq \in requests \ requests' :
                     (rq.to = id[n] /\ conns[n] # {})
                     => Cardinality(conns'[n]) <= Cardinality(conns[n])
              /\ \A rsp \in responses \ responses' :
                     rsp.to = id[n]
                     => /\ Cardinality(conns'[n]) <= Cardinality(conns[n]) + 1
                        /\ Cardinality(conns'[n]) > Cardinality(conns[n])
                           => rsp.from \notin conns[n]]_vars

\* A round between two nodes with views of two peers completed with both
\* participating, and left both views with two peers.
C19_Witness ==
    \E a \in round.v1, b \in round.v2, rq \in round.req, rsp \in round.resp :
        /\ round.phase = "done"
        /\ a # b
        /\ rq.to \in round.view1
        /\ rsp.selected # {}
        /\ Cardinality(round.view1) = 2
        /\ Cardinality(round.view2) = 2
        /\ Cardinality(conns[a]) = 2
        /\ Cardinality(conns[b]) = 2
        /\ conns[a] # round.view1

\* The overlay as an undirected graph on the ids: x and y are adjacent when
\* one is the id of a node whose view (in c) holds the other.
Adjacent(c, x, y) ==
    \E n \in Nodes : \/ id[n] = x /\ y \in c[n]
                     \/ id[n] = y /\ x \in c[n]

RECURSIVE Reach(_, _, _)
\* The ids within k edges of the set s.
Reach(c, s, k) ==
    IF k = 0 THEN s
    ELSE Reach(c, s \cup {y \in Ids : \E x \in s : Adjacent(c, x, y)}, k - 1)

Connected(c, x, y) == y \in Reach(c, {x}, Cardinality(Ids))

\* The views when the round in progress began.
ViewsBeforeRound ==
    [n \in Nodes |-> IF n \in round.v1 THEN round.view1
                     ELSE IF n \in round.v2 THEN round.view2
                     ELSE conns[n]]

\* C20: after a completed atomic round in which both nodes participated,
\* any two ids that were connected in the undirected overlay before the
\* round are still connected, whatever the target and v3 were.
C20_RoundKeepsConnectivity ==
    \A rsp \in round.resp :
        (round.phase = "done" /\ rsp.selected # {})
        => \A x \in Ids, y \in Ids :
               Connected(ViewsBeforeRound, x, y) => Connected(conns, x, y)

\* A round of case_0's shape completed: v2 handed to v1 a third peer, which
\* was connected to v1 through v2 before the round and is v1's peer after it.
C20_Witness ==
    \E a \in round.v1, b \in round.v2, rsp \in round.resp, v3 \in Ids :
        /\ round.phase = "done"
        /\ a # b
        /\ rsp.selected = {v3}
        /\ v3 \notin {id[a], id[b]}
        /\ v3 \notin round.view1
        /\ Connected(ViewsBeforeRound, id[a], v3)
        /\ v3 \in conns[a]
        /\ v3 \notin conns[b]

====
